---- MODULE Spec2Model ----
(***************************************************************************)
(* backlogd: the file-backed backlog store (BacklogManager), its YAML      *)
(* persistence, and the selection state of the interactive shell           *)
(* (InteractiveCLI), modelled from src/backlogd.py.                        *)
(*                                                                         *)
(* A Python value held in a mutable item field or passed as an argument is *)
(* None (the empty tuple) or the one-element tuple <<v>> of its value.     *)
(* Timestamps are the readings of a clock that only moves forward; an item *)
(* identifier "<NAME_UPPER>-<n>" is the pair <<NAME_UPPER, n>>.            *)
(***************************************************************************)
EXTENDS Integers, Sequences, FiniteSets, TLC

VARIABLES
    projects,         \* BacklogManager.projects: name -> list of BacklogItem
    docs,             \* the storage directory: name -> saved list of dicts
    now,              \* the reading datetime.now() gives at this moment
    current_project,  \* InteractiveCLI.current_project
    running,          \* InteractiveCLI.running
    pc,               \* InteractiveCLI.run: "prompt" while the loop reads
                      \* commands, "done" once it was left or never entered
    last,             \* the call made last, and what it returned and printed
    removed           \* history: <<project, id>> of the items delete_item
                      \* removed since load_projects, project still alive

vars == <<projects, docs, now, current_project, running, pc, last, removed>>

----------------------------------------------------------------------------
(* Bounds *)

MaxItems == 2         \* items the store holds at most in the model
MaxClock == 2         \* last reading of the clock in the model
MaxShellItems == 1    \* items the store holds at most under the shell
MaxGenItems == 3      \* items the store holds at most in SpecGen

(* Inputs *)

ProjectNames == {"web", "p"}

None == << >>
Some(v) == <<v>>

\* the first reading of the clock
FirstClock == 1

\* created_at / updated_at when the constructor is not given one
NoTime == 0

\* the arguments of add_item after project_name
AddInputs ==
    { [title |-> Some("Login"), description |-> Some("OAuth flow"),
       priority |-> Some("medium"), sprint |-> None, epic |-> None,
       assignee |-> None, story_points |-> None],
      [title |-> Some("Search"), description |-> Some("Full text"),
       priority |-> Some("high"), sprint |-> Some("s1"), epic |-> Some("e1"),
       assignee |-> Some("bob"), story_points |-> Some(5)] }

\* the keyword arguments of update_item
UpdateInputs ==
    { ("status" :> Some("done")) @@ ("sprint" :> None) }

----------------------------------------------------------------------------
(* Python helpers *)

\* truth value of an optional string: None and "" are false
truthy(x) == x # None /\ x # Some("")

\* str.upper() on the project names of the model
upper(name) ==
    CASE name = "web" -> "WEB"
      [] name = "p" -> "P"
      [] OTHER -> name

\* the item identifiers a caller names
ItemIds(project_name) == {<<upper(project_name), k>> : k \in 1..(MaxItems + 1)}

\* del lst[i]
DelAt(s, i) == SubSeq(s, 1, i - 1) \o SubSeq(s, i + 1, Len(s))

\* index of the first item of the list whose id is item_id, 0 when none
RECURSIVE find_from(_, _, _)
find_from(items, item_id, i) ==
    IF i > Len(items) THEN 0
    ELSE IF items[i].id = item_id THEN i
    ELSE find_from(items, item_id, i + 1)

find_item(items, item_id) == find_from(items, item_id, 1)

----------------------------------------------------------------------------
(* BacklogItem *)

ItemFields == {"id", "title", "description", "priority", "status", "sprint",
               "epic", "assignee", "story_points", "created_at", "updated_at"}

\* the dataclass constructor followed by __post_init__ at clock reading t;
\* kw gives every field, NoTime for a timestamp left to its default
BacklogItem(kw, t) ==
    [kw EXCEPT !.created_at = IF @ = NoTime THEN t ELSE @,
               !.updated_at = t]

\* dataclasses.asdict: one key per field
asdict(item) == [k \in ItemFields |-> item[k]]

----------------------------------------------------------------------------
(* Persistence *)

\* save_project: the store's documents after saving project_name
save_project(projs, ds, project_name) ==
    IF project_name \notin DOMAIN projs THEN ds
    ELSE [n \in DOMAIN ds \cup {project_name} |->
            IF n = project_name
            THEN [i \in 1..Len(projs[n]) |-> asdict(projs[n][i])]
            ELSE ds[n]]

\* load_projects at clock reading t: every document becomes a project, each
\* of its dicts an item built by BacklogItem(**item)
load_projects(ds, t) ==
    [n \in DOMAIN ds |-> [i \in 1..Len(ds[n]) |-> BacklogItem(ds[n][i], t)]]

----------------------------------------------------------------------------
(* Identifier generation *)

RECURSIVE scan_counter(_, _, _)
scan_counter(prefix, existing_ids, counter) ==
    IF <<prefix, counter>> \in existing_ids
    THEN scan_counter(prefix, existing_ids, counter + 1)
    ELSE counter

\* a generate_item_id that takes count + 1 without scanning for a collision
generate_item_id_noscan(projs, project_name) ==
    IF project_name \notin DOMAIN projs THEN <<upper(project_name), 1>>
    ELSE <<upper(project_name), Len(projs[project_name]) + 1>>

\* a generate_item_id that scans from 1 instead of from count + 1
generate_item_id_fromone(projs, project_name) ==
    IF project_name \notin DOMAIN projs THEN <<upper(project_name), 1>>
    ELSE LET existing_ids == {projs[project_name][i].id :
                                 i \in 1..Len(projs[project_name])}
         IN <<upper(project_name), scan_counter(upper(project_name),
                                                existing_ids, 1)>>

generate_item_id(projs, project_name) ==
    IF project_name \notin DOMAIN projs THEN <<upper(project_name), 1>>
    ELSE LET existing_ids == {projs[project_name][i].id :
                                 i \in 1..Len(projs[project_name])}
             counter == Len(projs[project_name]) + 1
         IN <<upper(project_name), scan_counter(upper(project_name),
                                                existing_ids, counter)>>

----------------------------------------------------------------------------
(* BacklogManager: each method gives the store and the documents it leaves,
   the value it returns and the message it prints *)

Result(projs, ds, ret, msg) ==
    [projects |-> projs, docs |-> ds, ret |-> ret, msg |-> msg]

\* a create_project that does not look for the name in the store first
create_project_overwrite(projs, ds, project_name) ==
    LET projs1 == [n \in DOMAIN projs \cup {project_name} |->
                     IF n = project_name THEN << >> ELSE projs[n]]
    IN Result(projs1, save_project(projs1, ds, project_name), TRUE, "created")

create_project(projs, ds, project_name) ==
    IF project_name \in DOMAIN projs
    THEN Result(projs, ds, FALSE, "already exists")
    ELSE LET projs1 == [n \in DOMAIN projs \cup {project_name} |->
                          IF n = project_name THEN << >> ELSE projs[n]]
         IN Result(projs1, save_project(projs1, ds, project_name),
                   TRUE, "created")

\* a delete_project that does not wait for the confirmation
delete_project_noconfirm(projs, ds, project_name, confirm) ==
    IF project_name \notin DOMAIN projs
    THEN Result(projs, ds, FALSE, "project not found")
    ELSE Result([n \in DOMAIN projs \ {project_name} |-> projs[n]],
                [n \in DOMAIN ds \ {project_name} |-> ds[n]],
                TRUE, "deleted")

\* a delete_project that drops the project and leaves its document
delete_project_keepfile(projs, ds, project_name, confirm) ==
    IF project_name \notin DOMAIN projs
    THEN Result(projs, ds, FALSE, "project not found")
    ELSE IF confirm
    THEN Result([n \in DOMAIN projs \ {project_name} |-> projs[n]], ds,
                TRUE, "deleted")
    ELSE Result(projs, ds, FALSE, "")

delete_project(projs, ds, project_name, confirm) ==
    IF project_name \notin DOMAIN projs
    THEN Result(projs, ds, FALSE, "project not found")
    ELSE IF confirm
    THEN Result([n \in DOMAIN projs \ {project_name} |-> projs[n]],
                [n \in DOMAIN ds \ {project_name} |-> ds[n]],
                TRUE, "deleted")
    ELSE Result(projs, ds, FALSE, "")

add_item(projs, ds, t, project_name, a) ==
    IF project_name \notin DOMAIN projs
    THEN Result(projs, ds, FALSE, "project not found")
    ELSE LET item_id == generate_item_id(projs, project_name)
             item == BacklogItem(
                 [id |-> item_id, title |-> a.title,
                  description |-> a.description, priority |-> a.priority,
                  status |-> Some("todo"), sprint |-> a.sprint,
                  epic |-> a.epic, assignee |-> a.assignee,
                  story_points |-> a.story_points,
                  created_at |-> NoTime, updated_at |-> NoTime], t)
             projs1 == [projs EXCEPT ![project_name] = Append(@, item)]
         IN Result(projs1, save_project(projs1, ds, project_name),
                   TRUE, "added")

\* a setattr loop that also assigns the fields given as None
apply_kwargs_nulls(item, kwargs) ==
    [k \in DOMAIN item |->
        IF k \in DOMAIN kwargs THEN kwargs[k] ELSE item[k]]

\* the setattr loop of update_item over the keyword arguments
apply_kwargs(item, kwargs) ==
    [k \in DOMAIN item |->
        IF k \in DOMAIN kwargs /\ kwargs[k] # None THEN kwargs[k]
        ELSE item[k]]

\* an update_item that leaves updated_at as it was
update_item_nostamp(projs, ds, t, project_name, item_id, kwargs) ==
    IF project_name \notin DOMAIN projs
    THEN Result(projs, ds, FALSE, "project not found")
    ELSE LET i == find_item(projs[project_name], item_id)
         IN IF i = 0 THEN Result(projs, ds, FALSE, "item not found")
            ELSE LET item == apply_kwargs(projs[project_name][i], kwargs)
                     projs1 == [projs EXCEPT ![project_name][i] = item]
                 IN Result(projs1, save_project(projs1, ds, project_name),
                           TRUE, "updated")

update_item(projs, ds, t, project_name, item_id, kwargs) ==
    IF project_name \notin DOMAIN projs
    THEN Result(projs, ds, FALSE, "project not found")
    ELSE LET i == find_item(projs[project_name], item_id)
         IN IF i = 0 THEN Result(projs, ds, FALSE, "item not found")
            ELSE LET item == [apply_kwargs(projs[project_name][i], kwargs)
                                EXCEPT !.updated_at = t]
                     projs1 == [projs EXCEPT ![project_name][i] = item]
                 IN Result(projs1, save_project(projs1, ds, project_name),
                           TRUE, "updated")

\* a delete_item that does not save the project after the removal
delete_item_nosave(projs, ds, project_name, item_id, confirm) ==
    IF project_name \notin DOMAIN projs
    THEN Result(projs, ds, FALSE, "project not found")
    ELSE LET i == find_item(projs[project_name], item_id)
         IN IF i = 0 THEN Result(projs, ds, FALSE, "item not found")
            ELSE IF confirm
            THEN Result([projs EXCEPT ![project_name] = DelAt(@, i)], ds,
                        TRUE, "deleted")
            ELSE Result(projs, ds, FALSE, "")

delete_item(projs, ds, project_name, item_id, confirm) ==
    IF project_name \notin DOMAIN projs
    THEN Result(projs, ds, FALSE, "project not found")
    ELSE LET i == find_item(projs[project_name], item_id)
         IN IF i = 0 THEN Result(projs, ds, FALSE, "item not found")
            ELSE IF confirm
            THEN LET projs1 == [projs EXCEPT
                                  ![project_name] = DelAt(@, i)]
                 IN Result(projs1, save_project(projs1, ds, project_name),
                           TRUE, "deleted")
            ELSE Result(projs, ds, FALSE, "")

\* a filter chain that leaves out the status filter
filter_items_nostatus(items, priority, sprint, epic, status) ==
    LET f1 == IF truthy(priority)
              THEN SelectSeq(items, LAMBDA it : it.priority = priority)
              ELSE items
        f2 == IF truthy(sprint)
              THEN SelectSeq(f1, LAMBDA it : it.sprint = sprint)
              ELSE f1
        f3 == IF truthy(epic)
              THEN SelectSeq(f2, LAMBDA it : it.epic = epic)
              ELSE f2
    IN f3

\* the filter chain of list_items on one project's list
filter_items(items, priority, sprint, epic, status) ==
    LET f1 == IF truthy(priority)
              THEN SelectSeq(items, LAMBDA it : it.priority = priority)
              ELSE items
        f2 == IF truthy(sprint)
              THEN SelectSeq(f1, LAMBDA it : it.sprint = sprint)
              ELSE f1
        f3 == IF truthy(epic)
              THEN SelectSeq(f2, LAMBDA it : it.epic = epic)
              ELSE f2
        f4 == IF truthy(status)
              THEN SelectSeq(f3, LAMBDA it : it.status = status)
              ELSE f3
    IN f4

\* list_items: the message printed and the table printed for each project
list_items(projs, project_name, priority, sprint, epic, status) ==
    IF truthy(project_name) /\ project_name[1] \notin DOMAIN projs
    THEN [msg |-> "project not found", tables |-> << >>]
    ELSE LET projects_to_show == IF truthy(project_name)
                                 THEN {project_name[1]} ELSE DOMAIN projs
             shown == {n \in projects_to_show :
                          /\ projs[n] # << >>
                          /\ filter_items(projs[n], priority, sprint, epic,
                                          status) # << >>}
         IN [msg |-> "",
             tables |-> [n \in shown |->
                           filter_items(projs[n], priority, sprint, epic,
                                        status)]]

\* show_item_details: the message printed and the item of the panel
show_item_details(projs, project_name, item_id) ==
    IF project_name \notin DOMAIN projs
    THEN [msg |-> "project not found", tables |-> << >>]
    ELSE LET i == find_item(projs[project_name], item_id)
         IN IF i = 0 THEN [msg |-> "item not found", tables |-> << >>]
            ELSE [msg |-> "", tables |-> <<projs[project_name][i]>>]

----------------------------------------------------------------------------
(* The calls made on one BacklogManager *)

\* what `last` keeps of a call: the method, its project argument (filters
\* too for list_items), the value returned, the message and tables printed
Call(op, args, ret, msg, out) ==
    [op |-> op, args |-> args, ret |-> ret, msg |-> msg, out |-> out]

\* the number of items the store holds
RECURSIVE SumLen(_, _)
SumLen(projs, names) ==
    IF names = {} THEN 0
    ELSE LET n == CHOOSE x \in names : TRUE
         IN Len(projs[n]) + SumLen(projs, names \ {n})

TotalItems(projs) == SumLen(projs, DOMAIN projs)

Init ==
    /\ projects = << >>
    /\ docs = << >>
    /\ now = FirstClock
    /\ current_project = None
    /\ running = TRUE
    /\ pc = "prompt"
    /\ last = Call("init", << >>, TRUE, "", << >>)
    /\ removed = {}

\* the clock moves on between two calls
Tick ==
    /\ now < MaxClock
    /\ now' = now + 1
    /\ UNCHANGED <<projects, docs, current_project, running, pc, last>>

\* BacklogManager() and InteractiveCLI(manager) over the same directory
NewManager ==
    /\ projects' = load_projects(docs, now)
    /\ current_project' = None
    /\ running' = TRUE
    /\ pc' = "prompt"
    /\ last' = Call("load_projects", << >>, TRUE, "", << >>)
    /\ UNCHANGED <<docs, now>>

CreateProject(project_name) ==
    LET r == create_project(projects, docs, project_name)
    IN /\ projects' = r.projects
       /\ docs' = r.docs
       /\ last' = Call("create_project", <<project_name>>, r.ret, r.msg, << >>)
       /\ UNCHANGED <<now, current_project, running, pc>>

DeleteProject(project_name, confirm) ==
    LET r == delete_project(projects, docs, project_name, confirm)
    IN /\ projects' = r.projects
       /\ docs' = r.docs
       /\ last' = Call("delete_project", <<project_name>>, r.ret, r.msg, << >>)
       /\ UNCHANGED <<now, current_project, running, pc>>

AddItem(project_name, a) ==
    /\ LET r == add_item(projects, docs, now, project_name, a)
       IN /\ projects' = r.projects
          /\ docs' = r.docs
          /\ last' = Call("add_item", <<project_name>>, r.ret, r.msg, << >>)
    /\ UNCHANGED <<now, current_project, running, pc>>

\* a call of generate_item_id on its own
GenerateItemId(project_name) ==
    /\ last' = Call("generate_item_id", <<project_name>>, TRUE, "",
                    <<generate_item_id(projects, project_name)>>)
    /\ UNCHANGED <<projects, docs, now, current_project, running, pc>>

UpdateItem(project_name, item_id, kwargs) ==
    LET r == update_item(projects, docs, now, project_name, item_id, kwargs)
    IN /\ projects' = r.projects
       /\ docs' = r.docs
       /\ last' = Call("update_item", <<project_name>>, r.ret, r.msg, << >>)
       /\ UNCHANGED <<now, current_project, running, pc>>

DeleteItem(project_name, item_id, confirm) ==
    LET r == delete_item(projects, docs, project_name, item_id, confirm)
    IN /\ projects' = r.projects
       /\ docs' = r.docs
       /\ last' = Call("delete_item", <<project_name>>, r.ret, r.msg, << >>)
       /\ UNCHANGED <<now, current_project, running, pc>>

ShowItemDetails(project_name, item_id) ==
    LET r == show_item_details(projects, project_name, item_id)
    IN /\ last' = Call("show_item_details", <<project_name>>, TRUE, r.msg,
                       r.tables)
       /\ UNCHANGED <<projects, docs, now, current_project, running, pc>>

ListItems(project_name, priority, sprint, epic, status) ==
    LET r == list_items(projects, project_name, priority, sprint, epic,
                        status)
    IN /\ last' = Call("list_items",
                       <<project_name, priority, sprint, epic, status>>,
                       TRUE, r.msg, r.tables)
       /\ UNCHANGED <<projects, docs, now, current_project, running, pc>>

----------------------------------------------------------------------------
(* InteractiveCLI: the project commands of the shell; args is the list of
   tokens after the command *)

CliUseProject(args) ==
    /\ running /\ pc = "prompt"
    /\ IF args = << >>
       THEN /\ last' = Call("use", args, TRUE, "usage", << >>)
            /\ UNCHANGED current_project
       ELSE IF args[1] \in DOMAIN projects
       THEN /\ current_project' = Some(args[1])
            /\ last' = Call("use", args, TRUE, "switched", << >>)
       ELSE /\ last' = Call("use", args, TRUE, "project not found", << >>)
            /\ UNCHANGED current_project
    /\ UNCHANGED <<projects, docs, now, running, pc>>

CliCreateProject(args) ==
    /\ running /\ pc = "prompt"
    /\ IF args = << >>
       THEN /\ last' = Call("create-project", args, TRUE, "usage", << >>)
            /\ UNCHANGED <<projects, docs, current_project>>
       ELSE LET r == create_project(projects, docs, args[1])
            IN /\ projects' = r.projects
               /\ docs' = r.docs
               /\ current_project' = IF r.ret THEN Some(args[1])
                                     ELSE current_project
               /\ last' = Call("create-project", args, r.ret, r.msg, << >>)
    /\ UNCHANGED <<now, running, pc>>

\* a delete-project that leaves the selection on the project it deleted
CliDeleteProject_keeps(args, confirm) ==
    /\ running /\ pc = "prompt"
    /\ IF args = << >>
       THEN /\ last' = Call("delete-project", args, TRUE, "usage", << >>)
            /\ UNCHANGED <<projects, docs>>
       ELSE LET r == delete_project(projects, docs, args[1], confirm)
            IN /\ projects' = r.projects
               /\ docs' = r.docs
               /\ last' = Call("delete-project", args, r.ret, r.msg, << >>)
    /\ UNCHANGED <<now, current_project, running, pc>>

\* a delete-project that clears the selection whatever project it deleted
CliDeleteProject_clears(args, confirm) ==
    /\ running /\ pc = "prompt"
    /\ IF args = << >>
       THEN /\ last' = Call("delete-project", args, TRUE, "usage", << >>)
            /\ UNCHANGED <<projects, docs, current_project>>
       ELSE LET r == delete_project(projects, docs, args[1], confirm)
            IN /\ projects' = r.projects
               /\ docs' = r.docs
               /\ current_project' = IF r.ret THEN None ELSE current_project
               /\ last' = Call("delete-project", args, r.ret, r.msg, << >>)
    /\ UNCHANGED <<now, running, pc>>

CliDeleteProject(args, confirm) ==
    /\ running /\ pc = "prompt"
    /\ IF args = << >>
       THEN /\ last' = Call("delete-project", args, TRUE, "usage", << >>)
            /\ UNCHANGED <<projects, docs, current_project>>
       ELSE LET r == delete_project(projects, docs, args[1], confirm)
            IN /\ projects' = r.projects
               /\ docs' = r.docs
               /\ current_project' =
                     IF r.ret /\ current_project = Some(args[1]) THEN None
                     ELSE current_project
               /\ last' = Call("delete-project", args, r.ret, r.msg, << >>)
    /\ UNCHANGED <<now, running, pc>>

\* the argument lists typed after a project command
ProjectArgs == {<< >>} \cup {<<n>> : n \in ProjectNames}

----------------------------------------------------------------------------
(* InteractiveCLI: the item commands of the shell.  An item identifier typed
   after a command is the pair of its prefix and its number. *)

\* the refusal of an item command while no project is selected
NoProject == "no project selected"

\* str.isdigit() and int() on the strings given for story points
isdigit(s) == s \in {"0", "5", "8"}

int(s) ==
    CASE s = "0" -> 0
      [] s = "5" -> 5
      [] s = "8" -> 8
      [] s = "-3" -> 0 - 3

\* `x or None` on a string
or_none(s) == IF s = "" THEN None ELSE Some(s)

\* the prompts of `add`, in the order they are asked
AddPrompts(args) ==
    IF Len(args) >= 2
    THEN <<"priority", "sprint", "epic", "assignee", "points">>
    ELSE <<"title", "description", "priority", "sprint", "epic", "assignee",
           "points">>

\* the prompts of `update`, in the order they are asked
UpdatePrompts ==
    <<"title", "description", "priority", "status", "sprint", "epic",
      "assignee", "points">>

\* the exception a prompt of a field sequence raises: none, or `exc` at the
\* prompt number `at`
NoRaise == [at |-> 0, exc |-> "none"]

Raises(prompts) ==
    {NoRaise} \cup {[at |-> k, exc |-> e] :
                       k \in 1..Len(prompts),
                       e \in {"KeyboardInterrupt", "EOFError"}}

\* the except clauses of add_item and update_item
edit_except(exc) ==
    IF exc = "KeyboardInterrupt" THEN "cancelled" ELSE "edit error"

\* the keyword arguments add_item of the shell builds from what was typed
add_arguments(args, ans) ==
    [title |-> Some(IF Len(args) >= 2 THEN args[1] ELSE ans.title),
     description |-> Some(IF Len(args) >= 2 THEN args[2]
                          ELSE ans.description),
     priority |-> Some(ans.priority),
     sprint |-> or_none(ans.sprint),
     epic |-> or_none(ans.epic),
     assignee |-> or_none(ans.assignee),
     story_points |-> IF isdigit(ans.points) THEN Some(int(ans.points))
                      ELSE None]

\* an `add` that hands the item to the store before it asks for the story
\* points
cli_add_item_early(projs, ds, t, cur, args, ans, raise) ==
    IF ~truthy(cur) THEN Result(projs, ds, FALSE, NoProject)
    ELSE IF raise.at # 0 /\ raise.at < Len(AddPrompts(args))
    THEN Result(projs, ds, FALSE, edit_except(raise.exc))
    ELSE LET r == add_item(projs, ds, t, cur[1],
                           [add_arguments(args, ans) EXCEPT
                               !.story_points = None])
         IN IF raise.at # 0
            THEN Result(r.projects, r.docs, FALSE, edit_except(raise.exc))
            ELSE r

\* InteractiveCLI.add_item
cli_add_item(projs, ds, t, cur, args, ans, raise) ==
    IF ~truthy(cur) THEN Result(projs, ds, FALSE, NoProject)
    ELSE IF raise.at # 0
    THEN Result(projs, ds, FALSE, edit_except(raise.exc))
    ELSE add_item(projs, ds, t, cur[1], add_arguments(args, ans))

\* the `updates` dict update_item of the shell builds from what was typed
update_arguments(ans) ==
    LET typed == {k \in {"title", "description", "priority", "status",
                         "sprint", "epic", "assignee"} : ans[k] # ""}
        points == IF ans.points # "" /\ isdigit(ans.points)
                  THEN {"story_points"} ELSE {}
    IN [k \in typed \cup points |->
           IF k = "story_points" THEN Some(int(ans.points)) ELSE Some(ans[k])]

\* InteractiveCLI.update_item
cli_update_item(projs, ds, t, cur, args, ans, raise) ==
    IF ~truthy(cur) THEN Result(projs, ds, FALSE, NoProject)
    ELSE IF args = << >> THEN Result(projs, ds, FALSE, "usage")
    ELSE IF cur[1] \notin DOMAIN projs THEN Result(projs, ds, FALSE, "error")
    ELSE IF find_item(projs[cur[1]], args[1]) = 0
    THEN Result(projs, ds, FALSE, "item not found")
    ELSE IF raise.at # 0
    THEN Result(projs, ds, FALSE, edit_except(raise.exc))
    ELSE IF DOMAIN update_arguments(ans) = {}
    THEN Result(projs, ds, FALSE, "no changes")
    ELSE update_item(projs, ds, t, cur[1], args[1], update_arguments(ans))

\* `add` gets to its prompts
add_asks(cur) == truthy(cur)

\* `update` gets to its prompts
update_asks(projs, cur, args) ==
    /\ truthy(cur)
    /\ args # << >>
    /\ cur[1] \in DOMAIN projs
    /\ find_item(projs[cur[1]], args[1]) # 0

CliAddItem(args, ans, raise) ==
    /\ running /\ pc = "prompt"
    /\ raise.at # 0 => add_asks(current_project)
    /\ LET r == cli_add_item(projects, docs, now, current_project, args, ans,
                             raise)
       IN /\ projects' = r.projects
          /\ docs' = r.docs
          /\ last' = Call("add", args, r.ret, r.msg, << >>)
    /\ UNCHANGED <<now, current_project, running, pc>>

CliUpdateItem(args, ans, raise) ==
    /\ running /\ pc = "prompt"
    /\ raise.at # 0 => update_asks(projects, current_project, args)
    /\ LET r == cli_update_item(projects, docs, now, current_project, args,
                                ans, raise)
       IN /\ projects' = r.projects
          /\ docs' = r.docs
          /\ last' = Call("update", args, r.ret, r.msg, << >>)
    /\ UNCHANGED <<now, current_project, running, pc>>

\* a `delete` that does not look at the selection first
cli_delete_item_noguard(projs, ds, cur, args, confirm) ==
    IF args = << >> THEN Result(projs, ds, FALSE, "usage")
    ELSE delete_item(projs, ds, IF cur = None THEN "" ELSE cur[1], args[1],
                     confirm)

\* InteractiveCLI.delete_item
cli_delete_item(projs, ds, cur, args, confirm) ==
    IF ~truthy(cur) THEN Result(projs, ds, FALSE, NoProject)
    ELSE IF args = << >> THEN Result(projs, ds, FALSE, "usage")
    ELSE delete_item(projs, ds, cur[1], args[1], confirm)

CliDeleteItem(args, confirm) ==
    /\ running /\ pc = "prompt"
    /\ LET r == cli_delete_item(projects, docs, current_project, args,
                                confirm)
       IN /\ projects' = r.projects
          /\ docs' = r.docs
          /\ last' = Call("delete", args, r.ret, r.msg, << >>)
    /\ UNCHANGED <<now, current_project, running, pc>>

CliShowItem(args) ==
    /\ running /\ pc = "prompt"
    /\ IF ~truthy(current_project)
       THEN last' = Call("show", args, TRUE, NoProject, << >>)
       ELSE IF args = << >>
       THEN last' = Call("show", args, TRUE, "usage", << >>)
       ELSE LET r == show_item_details(projects, current_project[1], args[1])
            IN last' = Call("show", args, TRUE, r.msg, r.tables)
    /\ UNCHANGED <<projects, docs, now, current_project, running, pc>>

\* the tokens of `items` that start with "--", and what follows the dashes
FilterName(token) ==
    CASE token = "--priority" -> "priority"
      [] token = "--status" -> "status"
      [] token = "--sprint" -> "sprint"
      [] token = "--epic" -> "epic"
      [] token = "--assignee" -> "assignee"
      [] OTHER -> ""

startswith_dashes(token) == FilterName(token) # ""

\* parse_filter_args from token i on, given the filters found so far
RECURSIVE parse_filter_from(_, _, _)
parse_filter_from(args, i, filters) ==
    IF i > Len(args) THEN filters
    ELSE IF startswith_dashes(args[i])
    THEN IF i + 1 <= Len(args) /\ ~startswith_dashes(args[i + 1])
         THEN parse_filter_from(args, i + 2,
                  [k \in DOMAIN filters \cup {FilterName(args[i])} |->
                      IF k = FilterName(args[i]) THEN args[i + 1]
                      ELSE filters[k]])
         ELSE parse_filter_from(args, i + 1, filters)
    ELSE parse_filter_from(args, i + 1, filters)

parse_filter_args(args) == parse_filter_from(args, 1, << >>)

\* the keyword parameters of BacklogManager.list_items after project_name
ListKeywords == {"priority", "sprint", "epic", "status"}

\* InteractiveCLI.list_items: the message and the tables printed; a keyword
\* list_items does not take raises TypeError, which run reports
cli_list_items(projs, cur, args) ==
    IF ~truthy(cur) THEN [msg |-> NoProject, tables |-> << >>]
    ELSE LET filters == parse_filter_args(args)
             kw(k) == IF k \in DOMAIN filters THEN Some(filters[k]) ELSE None
         IN IF ~(DOMAIN filters \subseteq ListKeywords)
            THEN [msg |-> "error", tables |-> << >>]
            ELSE list_items(projs, cur, kw("priority"), kw("sprint"),
                            kw("epic"), kw("status"))

CliListItems(args) ==
    /\ running /\ pc = "prompt"
    /\ LET r == cli_list_items(projects, current_project, args)
       IN last' = Call("items", args, TRUE, r.msg, r.tables)
    /\ UNCHANGED <<projects, docs, now, current_project, running, pc>>

\* export_to_csv / export_to_xlsx: the message and the rows of the file
export_to(projs, project_name) ==
    IF project_name \notin DOMAIN projs
    THEN [msg |-> "project not found", tables |-> << >>]
    ELSE IF projs[project_name] = << >>
    THEN [msg |-> "no items to export", tables |-> << >>]
    ELSE [msg |-> "exported",
          tables |-> [i \in 1..Len(projs[project_name]) |->
                         asdict(projs[project_name][i])]]

\* export-csv and export-xlsx
CliExport(command, args) ==
    /\ running /\ pc = "prompt"
    /\ IF ~truthy(current_project)
       THEN last' = Call(command, args, TRUE, NoProject, << >>)
       ELSE LET r == export_to(projects, current_project[1])
            IN last' = Call(command, args, TRUE, r.msg, r.tables)
    /\ UNCHANGED <<projects, docs, now, current_project, running, pc>>

----------------------------------------------------------------------------
(* InteractiveCLI.run: the command loop *)

\* the keys of InteractiveCLI.commands
Commands ==
    {"help", "h", "?", "exit", "quit", "q", "clear", "cls", "projects", "use",
     "create-project", "delete-project", "items", "add", "update", "delete",
     "show", "export-csv", "export-xlsx", "status"}

\* str.lower() on the first tokens typed in the model
lower(token) ==
    CASE token = "EXIT" -> "exit"
      [] token = "Quit" -> "quit"
      [] token = "Foo" -> "foo"
      [] token = "LIST" -> "list"
      [] OTHER -> token

\* parse_command: the first token in lower case, None for a line without one
parse_command(line) ==
    IF line = << >> THEN None ELSE Some(lower(line[1]))

\* a line of blanks: the loop reads the next line
CliBlank ==
    /\ running /\ pc = "prompt"
    /\ last' = Call("blank", << >>, TRUE, "", << >>)
    /\ UNCHANGED <<projects, docs, now, current_project, running, pc>>

\* a run that leaves the loop on a command it does not know
CliUnknown_fatal(line) ==
    /\ running /\ pc = "prompt"
    /\ parse_command(line) # None
    /\ parse_command(line)[1] \notin Commands
    /\ last' = Call("unknown", line, TRUE, "unknown command", << >>)
    /\ pc' = "done"
    /\ UNCHANGED <<projects, docs, now, current_project, running>>

\* a line whose command is not a key of the command table
CliUnknown(line) ==
    /\ running /\ pc = "prompt"
    /\ parse_command(line) # None
    /\ parse_command(line)[1] \notin Commands
    /\ last' = Call("unknown", line, TRUE, "unknown command", << >>)
    /\ UNCHANGED <<projects, docs, now, current_project, running, pc>>

\* exit, quit, q: exit_cli clears `running` and the loop condition fails
CliExit(line) ==
    /\ running /\ pc = "prompt"
    /\ parse_command(line) # None
    /\ parse_command(line)[1] \in {"exit", "quit", "q"}
    /\ running' = FALSE
    /\ pc' = "done"
    /\ last' = Call("exit", line, TRUE, "goodbye", << >>)
    /\ UNCHANGED <<projects, docs, now, current_project>>

\* help, status, projects, clear: they print and change nothing
CliInfo(command) ==
    /\ running /\ pc = "prompt"
    /\ command \in {"help", "h", "?", "status", "projects", "clear", "cls"}
    /\ last' = Call(command, << >>, TRUE, "", << >>)
    /\ UNCHANGED <<projects, docs, now, current_project, running, pc>>

\* the except clauses of run for an exception that leaves a handler or the
\* prompt of the loop
run_except(exc) ==
    IF exc = "KeyboardInterrupt" THEN [msg |-> "use exit to quit",
                                       pc |-> "prompt"]
    ELSE IF exc = "EOFError" THEN [msg |-> "goodbye", pc |-> "done"]
    ELSE [msg |-> "error", pc |-> "prompt"]

\* the prompt of the loop raises: Ctrl-C, or the end of the input
CliPromptRaises(exc) ==
    /\ running /\ pc = "prompt"
    /\ exc \in {"KeyboardInterrupt", "EOFError"}
    /\ last' = Call("prompt", << >>, FALSE, run_except(exc).msg, << >>)
    /\ pc' = run_except(exc).pc
    /\ UNCHANGED <<projects, docs, now, current_project, running>>

\* Confirm.ask of delete_item or delete_project raises under `delete` or
\* `delete-project`: no handler catches it before run does
CliConfirmRaises(command, args, exc) ==
    /\ running /\ pc = "prompt"
    /\ exc \in {"KeyboardInterrupt", "EOFError"}
    /\ args # << >>
    /\ \/ /\ command = "delete-project"
          /\ args[1] \in DOMAIN projects
       \/ /\ command = "delete"
          /\ truthy(current_project)
          /\ current_project[1] \in DOMAIN projects
          /\ find_item(projects[current_project[1]], args[1]) # 0
    /\ last' = Call(command, args, FALSE, run_except(exc).msg, << >>)
    /\ pc' = run_except(exc).pc
    /\ UNCHANGED <<projects, docs, now, current_project, running>>

----------------------------------------------------------------------------
(* main with arguments: a BacklogManager over the directory, one call on it,
   and the process ends.  A flag that is not given is None; the value of
   --points is the string typed, which argparse accepts when int() does. *)

\* the end of a batch process: `projects` is the store it leaves behind, and
\* no shell reads commands
BatchEnd(op, args, r) ==
    /\ projects' = r.projects
    /\ docs' = r.docs
    /\ current_project' = None
    /\ running' = TRUE
    /\ pc' = "done"
    /\ last' = Call(op, args, r.ret, r.msg, << >>)
    /\ UNCHANGED now

\* args.points after parse_args: type=int
parsed_points(flag) == IF flag = None THEN None ELSE Some(int(flag[1]))

\* project create NAME
BatchProjectCreate(name) ==
    BatchEnd("project create", <<name>>,
             create_project(load_projects(docs, now), docs, name))

\* project delete NAME
BatchProjectDelete(name, confirm) ==
    BatchEnd("project delete", <<name>>,
             delete_project(load_projects(docs, now), docs, name, confirm))

\* item add PROJECT TITLE DESCRIPTION [flags]
BatchItemAdd(project, title, description, flags) ==
    BatchEnd("item add", <<project, flags>>,
             add_item(load_projects(docs, now), docs, now, project,
                      [title |-> Some(title),
                       description |-> Some(description),
                       priority |-> IF flags.priority = None
                                    THEN Some("medium") ELSE flags.priority,
                       sprint |-> flags.sprint,
                       epic |-> flags.epic,
                       assignee |-> flags.assignee,
                       story_points |-> parsed_points(flags.points)]))

\* update_data of main: the flags given, under the names argparse gives them
update_data(flags) ==
    [k \in {f \in DOMAIN flags : flags[f] # None} |->
        IF k = "points" THEN parsed_points(flags[k]) ELSE flags[k]]

\* item update PROJECT ID [flags]
BatchItemUpdate(project, id, flags) ==
    BatchEnd("item update", <<project, id, flags>>,
             update_item(load_projects(docs, now), docs, now, project, id,
                         update_data(flags)))

\* item delete PROJECT ID
BatchItemDelete(project, id, confirm) ==
    BatchEnd("item delete", <<project, id>>,
             delete_item(load_projects(docs, now), docs, project, id,
                         confirm))

----------------------------------------------------------------------------
(* Spec: one project's store under a clock that moves, with a new
   BacklogManager over the same directory at any moment *)

\* the project of Spec
ClockedNames == {"web"}

\* the add_item arguments of Spec: the defaults of the command line
DefaultAdd == {a \in AddInputs : a.title = Some("Login")}

Next ==
    \/ Tick /\ UNCHANGED removed
    \/ NewManager /\ UNCHANGED removed
    \/ \E n \in ClockedNames : CreateProject(n) /\ UNCHANGED removed
    \/ \E n \in ClockedNames, c \in BOOLEAN :
          DeleteProject(n, c) /\ UNCHANGED removed
    \/ \E n \in ClockedNames, a \in DefaultAdd :
          TotalItems(projects) < MaxItems /\ AddItem(n, a)
             /\ UNCHANGED removed
    \/ \E n \in ClockedNames, kw \in UpdateInputs :
          \E id \in ItemIds(n) : UpdateItem(n, id, kw) /\ UNCHANGED removed
    \/ \E n \in ClockedNames, c \in BOOLEAN :
          \E id \in ItemIds(n) : DeleteItem(n, id, c) /\ UNCHANGED removed

Spec == Init /\ [][Next]_vars

\* C3: a new BacklogManager over the directory holds, for every document,
\* an item list equal field by field, created_at and updated_at included, and
\* in the same order, to the list save_project wrote.
C3_RoundTrip ==
    last.op = "load_projects" =>
        /\ DOMAIN projects = DOMAIN docs
        /\ \A n \in DOMAIN docs :
              /\ Len(projects[n]) = Len(docs[n])
              /\ \A i \in 1..Len(docs[n]) : asdict(projects[n][i]) = docs[n][i]

\* C4: after create_project, add_item, update_item or a confirmed delete_item
\* has succeeded, the document of that project holds exactly the project's
\* item list, in order; every project of the store has a document.
C4_SavedAfterMutation ==
    /\ DOMAIN projects \subseteq DOMAIN docs
    /\ ( /\ last.op \in {"create_project", "add_item", "update_item",
                          "delete_item"}
         /\ last.ret )
       => LET n == last.args[1]
          IN /\ n \in DOMAIN projects
             /\ n \in DOMAIN docs
             /\ Len(docs[n]) = Len(projects[n])
             /\ \A i \in 1..Len(docs[n]) :
                   docs[n][i] = asdict(projects[n][i])

\* an update that succeeded on one of two items at a later clock reading
\* than the item's creation
C4_Witness ==
    /\ last.op = "update_item" /\ last.ret
    /\ Len(projects["web"]) = 2
    /\ \E i \in 1..2 : projects["web"][i].updated_at > projects["web"][i].created_at

\* C5: a successful update_item sets the item's updated_at to the clock
\* reading of the call, a value other than the one before when the clock has
\* moved since, and leaves its created_at as it was.
C5_UpdateStamps ==
    [][\A n \in ClockedNames : \A id \in ItemIds(n) : \A kw \in UpdateInputs :
          (UpdateItem(n, id, kw) /\ last'.ret) =>
             LET i == find_item(projects[n], id)
             IN /\ projects'[n][i].updated_at = now
                /\ projects'[n][i].created_at = projects[n][i].created_at
                /\ now > projects[n][i].updated_at =>
                      projects'[n][i].updated_at # projects[n][i].updated_at]_vars

\* an update at a later clock reading than the item's creation
C5_Witness ==
    /\ last.op = "update_item" /\ last.ret
    /\ \E i \in 1..Len(projects["web"]) :
          /\ projects["web"][i].updated_at = now
          /\ projects["web"][i].created_at < now
          /\ projects["web"][i].status = Some("done")

\* C8: create_project on a name of the store returns failure and leaves the
\* store and the documents as they were; on a new name it adds a project
\* with no items and writes a document with no items.
C8_CreateProject ==
    [][\A n \in ClockedNames :
          CreateProject(n) =>
             IF n \in DOMAIN projects
             THEN /\ ~last'.ret
                  /\ last'.msg = "already exists"
                  /\ projects' = projects
                  /\ docs' = docs
             ELSE /\ last'.ret
                  /\ DOMAIN projects' = DOMAIN projects \cup {n}
                  /\ projects'[n] = << >>
                  /\ n \in DOMAIN docs' /\ docs'[n] = << >>
                  /\ \A m \in DOMAIN projects : projects'[m] = projects[m]]_vars

\* create_project refused on a project that holds items
C8_Witness ==
    /\ last.op = "create_project" /\ ~last.ret
    /\ "web" \in DOMAIN projects /\ Len(projects["web"]) = 2
    /\ docs["web"] = [i \in 1..2 |-> asdict(projects["web"][i])]

----------------------------------------------------------------------------
(* SpecIds: identifiers over one load session; `removed` keeps the
   identifiers delete_item took out of each project *)

NextIds ==
    \/ NewManager /\ removed' = {}
    \/ \E n \in ProjectNames : CreateProject(n) /\ UNCHANGED removed
    \/ \E n \in ProjectNames, a \in DefaultAdd :
          TotalItems(projects) < MaxItems /\ AddItem(n, a)
             /\ UNCHANGED removed
    \/ \E n \in ProjectNames, c \in BOOLEAN : \E id \in ItemIds(n) :
          /\ DeleteItem(n, id, c)
          /\ removed' = IF last'.ret THEN removed \cup {<<n, id>>}
                         ELSE removed

SpecIds == Init /\ [][NextIds]_vars

\* C1: the identifiers of the items of a project are pairwise distinct in
\* every state add_item and delete_item reach from an empty project, also
\* after a deletion has left a gap.
C1_IdsDistinct ==
    \A n \in DOMAIN projects :
        \A i, j \in 1..Len(projects[n]) :
            i # j => projects[n][i].id # projects[n][j].id

\* an add_item after a deletion left a gap: the count + 1 was taken and the
\* scan moved on to the next number
C1_Witness ==
    /\ last.op = "add_item" /\ last.ret
    /\ \E n \in DOMAIN projects :
          /\ Len(projects[n]) = 2
          /\ projects[n][1].id = <<upper(n), 2>>
          /\ projects[n][2].id = <<upper(n), 3>>

\* C2: an identifier delete_item removed from a project is never the
\* identifier of an item of that project later in the same load session.
C2_NeverReused ==
    \A n \in DOMAIN projects :
        \A i \in 1..Len(projects[n]) : <<n, projects[n][i].id>> \notin removed

----------------------------------------------------------------------------
(* SpecSession: one shell and its BacklogManager with two project names:
   the project commands of the shell, and the store methods that add and
   delete under it *)

NextSession ==
    \/ \E args \in ProjectArgs : CliUseProject(args) /\ UNCHANGED removed
    \/ \E args \in ProjectArgs : CliCreateProject(args) /\ UNCHANGED removed
    \/ \E args \in ProjectArgs, c \in BOOLEAN :
          CliDeleteProject(args, c) /\ UNCHANGED removed
    \/ \E n \in ProjectNames, c \in BOOLEAN :
          DeleteProject(n, c) /\ UNCHANGED removed
    \/ \E n \in ProjectNames, a \in DefaultAdd :
          TotalItems(projects) < MaxItems /\ AddItem(n, a)
             /\ UNCHANGED removed
    \/ \E n \in ProjectNames, c \in BOOLEAN :
          \E id \in ItemIds(n) : DeleteItem(n, id, c) /\ UNCHANGED removed

SpecSession == Init /\ [][NextSession]_vars

\* C6: a delete_item or delete_project whose confirmation is declined leaves
\* the store, every item list, every document and the selection of the shell
\* as they were.
C6_DeclinedChangesNothing ==
    [][( \/ \E n \in ProjectNames : \E id \in ItemIds(n) :
              DeleteItem(n, id, FALSE)
         \/ \E n \in ProjectNames : DeleteProject(n, FALSE)
         \/ \E args \in ProjectArgs : CliDeleteProject(args, FALSE) )
       => /\ projects' = projects
          /\ docs' = docs
          /\ current_project' = current_project]_vars

\* delete-project declined on the selected project, which holds an item
C6_Witness ==
    /\ last.op = "delete-project" /\ ~last.ret /\ last.msg = ""
    /\ last.args = <<"web">>
    /\ current_project = Some("web")
    /\ "web" \in DOMAIN projects /\ Len(projects["web"]) >= 1
    /\ "web" \in DOMAIN docs

\* C10: `use NAME` selects NAME when the store holds it and leaves the
\* selection otherwise; `create-project NAME` selects NAME exactly when it
\* creates the project; `delete-project NAME` clears the selection exactly
\* when it deletes the selected project and leaves it otherwise.
C10_SelectionTransitions ==
    [][\A n \in ProjectNames :
          /\ CliUseProject(<<n>>) =>
                current_project' = IF n \in DOMAIN projects THEN Some(n)
                                   ELSE current_project
          /\ CliCreateProject(<<n>>) =>
                current_project' = IF n \notin DOMAIN projects THEN Some(n)
                                   ELSE current_project
          /\ \A c \in BOOLEAN :
                CliDeleteProject(<<n>>, c) =>
                   current_project' =
                      IF c /\ n \in DOMAIN projects
                           /\ current_project = Some(n)
                      THEN None ELSE current_project]_vars

\* delete-project confirmed on a project other than the selected one
C10_Witness ==
    /\ last.op = "delete-project" /\ last.ret /\ last.args = <<"web">>
    /\ current_project = Some("p")
    /\ "p" \in DOMAIN projects
    /\ "web" \notin DOMAIN projects

----------------------------------------------------------------------------
(* SpecLookup: every method of the store that looks a project up by name,
   and the `use` command, over two project names *)

NextLookup ==
    \/ \E n \in ProjectNames : CreateProject(n) /\ UNCHANGED removed
    \/ \E n \in ProjectNames, c \in BOOLEAN :
          DeleteProject(n, c) /\ UNCHANGED removed
    \/ \E n \in ProjectNames, a \in DefaultAdd :
          TotalItems(projects) < MaxItems /\ AddItem(n, a)
             /\ UNCHANGED removed
    \/ \E n \in ProjectNames, kw \in UpdateInputs :
          \E id \in ItemIds(n) : UpdateItem(n, id, kw) /\ UNCHANGED removed
    \/ \E n \in ProjectNames, c \in BOOLEAN :
          \E id \in ItemIds(n) : DeleteItem(n, id, c) /\ UNCHANGED removed
    \/ \E n \in ProjectNames : \E id \in ItemIds(n) :
          ShowItemDetails(n, id) /\ UNCHANGED removed
    \/ \E n \in ProjectNames :
          ListItems(Some(n), None, None, None, None) /\ UNCHANGED removed
    \/ \E args \in ProjectArgs : CliUseProject(args) /\ UNCHANGED removed

SpecLookup == Init /\ [][NextLookup]_vars

\* C7: a confirmed delete_project of a project of the store removes its
\* document and its entry and leaves every other project and document as it
\* was; while a name is not in the store, add_item, update_item, delete_item,
\* show_item_details, list_items and `use` on it report not found and change
\* nothing; only create_project brings a name back.
C7_DeletedProject ==
    [][\A n \in ProjectNames :
          /\ (n \in DOMAIN projects /\ DeleteProject(n, TRUE)) =>
                /\ DOMAIN projects' = DOMAIN projects \ {n}
                /\ DOMAIN docs' = DOMAIN docs \ {n}
                /\ \A m \in DOMAIN projects' : projects'[m] = projects[m]
                /\ \A m \in DOMAIN docs' : docs'[m] = docs[m]
          /\ ( /\ n \notin DOMAIN projects
               /\ \/ \E a \in AddInputs : AddItem(n, a)
                  \/ \E id \in ItemIds(n), kw \in UpdateInputs :
                        UpdateItem(n, id, kw)
                  \/ \E id \in ItemIds(n), c \in BOOLEAN : DeleteItem(n, id, c)
                  \/ \E id \in ItemIds(n) : ShowItemDetails(n, id)
                  \/ ListItems(Some(n), None, None, None, None)
                  \/ CliUseProject(<<n>>) ) =>
                /\ last'.msg = "project not found"
                /\ last'.out = << >>
                /\ projects' = projects
                /\ docs' = docs
                /\ current_project' = current_project
          /\ (n \notin DOMAIN projects /\ n \in DOMAIN projects') =>
                last'.op = "create_project"]_vars

\* a confirmed delete_project next to a project that keeps its items
C7_Witness ==
    /\ last.op = "delete_project" /\ last.ret /\ last.args = <<"web">>
    /\ "web" \notin DOMAIN projects
    /\ "web" \notin DOMAIN docs
    /\ "p" \in DOMAIN projects /\ Len(projects["p"]) = 2

----------------------------------------------------------------------------
(* SpecList: list_items on the stores add_item and update_item can build
   from a few items, under every choice of project and filters *)

MaxListLen == 2       \* items of a project of SpecList at most

\* the field values of the items of SpecList: what add_item was given
\* (an empty sprint comes from `item add --sprint ""`) and the status
\* update_item left
ListShapes ==
    { [priority |-> Some("high"), sprint |-> Some("s1"), epic |-> Some("e1"),
       status |-> Some("todo")],
      [priority |-> Some("high"), sprint |-> Some(""), epic |-> None,
       status |-> Some("done")],
      [priority |-> Some("medium"), sprint |-> Some("s1"), epic |-> None,
       status |-> Some("todo")] }

\* the item add_item appends as number i of project n, of shape sh
ListItem(n, i, sh) ==
    [id |-> <<upper(n), i>>, title |-> Some("Login"),
     description |-> Some("OAuth flow"), priority |-> sh.priority,
     status |-> sh.status, sprint |-> sh.sprint, epic |-> sh.epic,
     assignee |-> None, story_points |-> None,
     created_at |-> FirstClock, updated_at |-> FirstClock]

\* the item lists of project n
ListsOf(n) ==
    UNION { { [i \in 1..k |-> ListItem(n, i, shs[i])] :
                shs \in [1..k -> ListShapes] } : k \in 0..MaxListLen }

\* the stores of SpecList: each name absent or with one of its lists
ListStores ==
    UNION { {[n \in names |-> f[n]] :
               f \in {g \in [names -> UNION {ListsOf(n) : n \in names}] :
                         \A n \in names : g[n] \in ListsOf(n)}} :
            names \in SUBSET ProjectNames }

InitList ==
    /\ projects \in ListStores
    /\ docs = [n \in DOMAIN projects |->
                 [i \in 1..Len(projects[n]) |-> asdict(projects[n][i])]]
    /\ now = FirstClock
    /\ current_project = None
    /\ running = TRUE
    /\ pc = "prompt"
    /\ last = Call("init", << >>, TRUE, "", << >>)
    /\ removed = {}

\* the project argument and the filters of a list_items call
ListProjectArgs == {None, Some("")} \cup {Some(n) : n \in ProjectNames}
ListPriorities == {None, Some("high")}
ListSprints == {None, Some(""), Some("s1")}
ListEpics == {None, Some("e1")}
ListStatuses == {None, Some("todo")}

\* list_items changes nothing in the store: one call on each store shows
\* all that a call can print
NextList ==
    /\ last.op = "init"
    /\ \E pn \in ListProjectArgs, pr \in ListPriorities, sp \in ListSprints,
          ep \in ListEpics, st \in ListStatuses :
          ListItems(pn, pr, sp, ep, st) /\ UNCHANGED removed

SpecList == InitList /\ [][NextList]_vars

\* the tables list_items is to print when `given` tells which arguments count
\* as given: for each project in scope the items that equal every given
\* filter, in stored order, and no table for a project without such an item
ExpectedTables(given(_), args) ==
    LET pn == args[1]
        f == [priority |-> args[2], sprint |-> args[3], epic |-> args[4],
              status |-> args[5]]
        Match(it) == \A k \in DOMAIN f : given(f[k]) => it[k] = f[k]
        scope == IF given(pn) THEN {pn[1]} \cap DOMAIN projects
                 ELSE DOMAIN projects
        shown == {n \in scope : \E i \in 1..Len(projects[n]) :
                                   Match(projects[n][i])}
    IN [n \in shown |-> SelectSeq(projects[n], Match)]

\* an argument counts as given when it is not None
NotNone(x) == x # None

\* C9 as stated: list_items shows exactly the items that equal every filter
\* supplied, a filter being supplied when the caller passed a value for it.
C9_AsStated ==
    last.op = "list_items" => last.out = ExpectedTables(NotNone, last.args)

\* C9 amended: list_items shows, for the named project or for every project
\* when none is named, exactly the items that equal every filter given, in
\* stored order, and nothing for a project without such an item; a project
\* name or a filter that is None or the empty string counts as not given.
C9_ListItems ==
    last.op = "list_items" =>
        /\ last.out = ExpectedTables(truthy, last.args)
        /\ last.msg = IF truthy(last.args[1])
                         /\ last.args[1][1] \notin DOMAIN projects
                      THEN "project not found" ELSE ""

\* list_items with an empty sprint filter and a status filter, over every
\* project: an item of sprint s1 is shown, a project without a todo item
\* is not
C9_Witness ==
    /\ last.op = "list_items"
    /\ last.args = <<None, None, Some(""), None, Some("todo")>>
    /\ DOMAIN projects = ProjectNames
    /\ DOMAIN last.out = {"web"}
    /\ Len(projects["web"]) = 2 /\ Len(last.out["web"]) = 1
    /\ last.out["web"][1].sprint = Some("s1")
    /\ Len(projects["p"]) >= 1

----------------------------------------------------------------------------
(* SpecShell: one run of the interactive shell from an empty directory, every
   command of the command table, and the exceptions its prompts raise *)

\* what is typed after `add`, and at its prompts
AddArgs == {<< >>, <<"Login", "OAuth flow">>}

AddAnswers ==
    { [title |-> "Login", description |-> "OAuth flow", priority |-> "medium",
       sprint |-> "", epic |-> "", assignee |-> "bob", points |-> ""] }

\* what is typed at the prompts of `update`
KeepAll ==
    [title |-> "", description |-> "", priority |-> "", status |-> "",
     sprint |-> "", epic |-> "", assignee |-> "", points |-> ""]

UpdateAnswers ==
    { KeepAll,
      [title |-> "", description |-> "", priority |-> "", status |-> "done",
       sprint |-> "", epic |-> "", assignee |-> "", points |-> "5"] }

\* what is typed after `update`, `delete` and `show`
ItemArgs ==
    {<< >>} \cup {<<<<upper(n), k>>>> :
                     n \in ProjectNames, k \in 1..(MaxShellItems + 1)}

\* the answers of a field sequence that is left at a prompt stay untyped
Typed(ans, raise, untyped) == raise = NoRaise \/ ans = untyped

\* what is typed after `items`
FilterArgs ==
    {<< >>, <<"--status", "done">>, <<"--assignee", "bob">>,
     <<"--priority", "--status", "todo">>}

\* the lines typed for exit and for commands the table does not hold
ExitLines == {<<"exit">>, <<"Quit">>, <<"q">>, <<"EXIT">>}

UnknownLines == {<<"Foo">>, <<"LIST", "web">>}

NextShell ==
    \/ \E args \in ProjectArgs : CliUseProject(args) /\ UNCHANGED removed
    \/ \E args \in ProjectArgs : CliCreateProject(args) /\ UNCHANGED removed
    \/ \E args \in ProjectArgs, c \in BOOLEAN :
          CliDeleteProject(args, c) /\ UNCHANGED removed
    \/ \E args \in FilterArgs : CliListItems(args) /\ UNCHANGED removed
    \/ \E args \in AddArgs, ans \in AddAnswers :
          \E raise \in Raises(AddPrompts(args)) :
             /\ TotalItems(projects) < MaxShellItems
             /\ CliAddItem(args, ans, raise)
             /\ UNCHANGED removed
    \/ \E args \in ItemArgs, ans \in UpdateAnswers :
          \E raise \in Raises(UpdatePrompts) :
             /\ Typed(ans, raise, KeepAll)
             /\ CliUpdateItem(args, ans, raise)
             /\ UNCHANGED removed
    \/ \E args \in ItemArgs, c \in BOOLEAN :
          CliDeleteItem(args, c) /\ UNCHANGED removed
    \/ \E args \in ItemArgs : CliShowItem(args) /\ UNCHANGED removed
    \/ \E command \in {"export-csv", "export-xlsx"} :
          CliExport(command, << >>) /\ UNCHANGED removed
    \/ \E command \in {"help", "status", "projects", "clear"} :
          CliInfo(command) /\ UNCHANGED removed
    \/ CliBlank /\ UNCHANGED removed
    \/ \E line \in UnknownLines : CliUnknown(line) /\ UNCHANGED removed
    \/ \E line \in ExitLines : CliExit(line) /\ UNCHANGED removed
    \/ \E exc \in {"KeyboardInterrupt", "EOFError"} :
          CliPromptRaises(exc) /\ UNCHANGED removed
    \/ \E args \in ItemArgs, exc \in {"KeyboardInterrupt", "EOFError"} :
          CliConfirmRaises("delete", args, exc) /\ UNCHANGED removed
    \/ \E args \in ProjectArgs, exc \in {"KeyboardInterrupt", "EOFError"} :
          CliConfirmRaises("delete-project", args, exc) /\ UNCHANGED removed

SpecShell == Init /\ [][NextShell]_vars

\* the commands of the table that work on the items of the selected project
ItemCommands ==
    {"items", "add", "update", "delete", "show", "export-csv", "export-xlsx"}

\* C11: while no project is selected, each of items, add, update, delete,
\* show, export-csv and export-xlsx prints the select-a-project message and
\* nothing of the store, and leaves the store, the documents and the
\* selection as they were.
C11_UnselectedRefuses ==
    [][(current_project = None /\ last'.op \in ItemCommands) =>
          /\ last'.msg = NoProject
          /\ last'.out = << >>
          /\ projects' = projects
          /\ docs' = docs
          /\ current_project' = current_project]_vars

\* `delete WEB-1` refused with no project selected while the store holds
\* WEB-1
C11_Witness ==
    /\ last.op = "delete" /\ last.msg = NoProject
    /\ last.args = <<<<"WEB", 1>>>>
    /\ current_project = None
    /\ "web" \in DOMAIN projects /\ Len(projects["web"]) = 1
    /\ projects["web"][1].id = <<"WEB", 1>>
    /\ docs["web"] = <<asdict(projects["web"][1])>>

\* a step that left a field sequence with everything as it was before the
\* command, the loop still reading
EditAborted ==
    /\ last'.msg = "cancelled"
    /\ projects' = projects
    /\ docs' = docs
    /\ current_project' = current_project
    /\ running' /\ pc' = "prompt"

\* C12: a KeyboardInterrupt at any prompt of the field sequence of `add` or
\* of `update` leaves the store, the documents and the selection as they were
\* before the command, and the loop goes on: running stays true and the next
\* command is read.
C12_InterruptAborts ==
    [][/\ last'.op = "add" =>
            \A args \in AddArgs, ans \in AddAnswers :
               \A raise \in Raises(AddPrompts(args)) :
                  ( /\ raise.exc = "KeyboardInterrupt"
                    /\ CliAddItem(args, ans, raise) ) => EditAborted
       /\ last'.op = "update" =>
            \A args \in ItemArgs :
               \A raise \in Raises(UpdatePrompts) :
                  ( /\ raise.exc = "KeyboardInterrupt"
                    /\ CliUpdateItem(args, KeepAll, raise) ) => EditAborted]_vars

\* `update WEB-1` left by an interrupt at one of its prompts
C12_Witness ==
    /\ last.op = "update" /\ last.msg = "cancelled"
    /\ last.args = <<<<"WEB", 1>>>>
    /\ current_project = Some("web")
    /\ Len(projects["web"]) = 1
    /\ projects["web"][1].status = Some("todo")
    /\ docs["web"] = <<asdict(projects["web"][1])>>
    /\ running /\ pc = "prompt"

\* a line with an unknown command prints the unknown-command message and
\* changes nothing; the loop reads the next line
UnknownGoesOn ==
    \A line \in UnknownLines :
        CliUnknown(line) =>
           /\ last'.msg = "unknown command"
           /\ projects' = projects
           /\ docs' = docs
           /\ current_project' = current_project
           /\ running' = running
           /\ pc' = "prompt"

\* the loop is left by exit, quit or q, or by the end of the input at the
\* prompt of the loop
LeftByExitOrEof ==
    \/ /\ last'.op = "exit"
       /\ parse_command(last'.args)[1] \in {"exit", "quit", "q"}
    \/ last'.op = "prompt" /\ last'.msg = "goodbye"

\* C13 as stated: an unknown command changes nothing and the loop goes on;
\* only exit, quit, q or the end of the input at the prompt of the loop ends
\* the loop.
C13_AsStated ==
    [][/\ UnknownGoesOn
       /\ (pc = "prompt" /\ pc' = "done") => LeftByExitOrEof]_vars

\* C13: a line whose first token in lower case is not a key of the command
\* table prints the unknown-command message, changes neither the store nor
\* the selection nor the running flag, and the loop reads the next line; the
\* loop ends only on exit, quit, q, on the end of the input at the prompt of
\* the loop, or on the end of the input at the confirmation of `delete` or
\* `delete-project`.
C13_UnknownCommand ==
    [][/\ UnknownGoesOn
       /\ (pc = "prompt" /\ pc' = "done") =>
             \/ LeftByExitOrEof
             \/ /\ last'.op \in {"delete", "delete-project"}
                /\ last'.msg = "goodbye"]_vars

\* `LIST web` typed with a project selected that holds an item
C13_Witness ==
    /\ last.op = "unknown" /\ last.args = <<"LIST", "web">>
    /\ last.msg = "unknown command"
    /\ current_project = Some("web")
    /\ Len(projects["web"]) = 1
    /\ running /\ pc = "prompt"

\* C14: with a project selected, `items --assignee bob` prints the table of
\* the items of the current project whose assignee is bob, and no table when
\* there is none.
C14_AssigneeFilter ==
    ( /\ last.op = "items" /\ last.args = <<"--assignee", "bob">>
      /\ current_project # None
      /\ current_project[1] \in DOMAIN projects )
    => LET n == current_project[1]
           matching == SelectSeq(projects[n],
                                 LAMBDA it : it.assignee = Some("bob"))
       IN /\ last.msg = ""
          /\ last.out = IF matching = << >> THEN << >>
                        ELSE [m \in {n} |-> matching]

\* C19: the current project of the shell is None or a project of the store,
\* and `update` never fails on indexing the store by it.
C19_SelectionInStore ==
    /\ current_project = None \/ current_project[1] \in DOMAIN projects
    /\ last.op = "update" => last.msg # "error"

\* delete-project has deleted the selected project; the other project stays
C19_Witness ==
    /\ last.op = "delete-project" /\ last.ret /\ last.args = <<"web">>
    /\ current_project = None
    /\ "web" \notin DOMAIN projects
    /\ "p" \in DOMAIN projects

----------------------------------------------------------------------------
(* SpecGen: generate_item_id on the item lists add_item and delete_item
   build *)

\* the identifiers a caller of delete_item names in SpecGen: with at most
\* MaxGenItems items no number reaches 2 * MaxGenItems
GenIds(project_name) ==
    {<<upper(project_name), k>> : k \in 1..(2 * MaxGenItems)}

NextGen ==
    \/ \E n \in ProjectNames : CreateProject(n) /\ UNCHANGED removed
    \/ \E n \in ProjectNames, a \in DefaultAdd :
          TotalItems(projects) < MaxGenItems /\ AddItem(n, a)
             /\ UNCHANGED removed
    \/ \E n \in ProjectNames : \E id \in GenIds(n) :
          DeleteItem(n, id, TRUE) /\ UNCHANGED removed
    \/ \E n \in ProjectNames : GenerateItemId(n) /\ UNCHANGED removed

SpecGen == Init /\ [][NextGen]_vars

\* C15: for a project of the store with n items, generate_item_id returns
\* <NAME_UPPER>-k with k the least integer >= n + 1 that no item of the
\* project has as its identifier; the first item of `web` gets WEB-1, and
\* with P-1 and P-3 left of P-1, P-2, P-3 the next identifier is P-4.
C15_LeastFreeFromCount ==
    ( /\ last.op = "generate_item_id"
      /\ last.args[1] \in DOMAIN projects )
    => LET name == last.args[1]
           items == projects[name]
           ids == {items[i].id : i \in 1..Len(items)}
           k == last.out[1][2]
       IN /\ last.out[1][1] = upper(name)
          /\ k >= Len(items) + 1
          /\ <<upper(name), k>> \notin ids
          /\ \A j \in (Len(items) + 1)..(k - 1) : <<upper(name), j>> \in ids
          /\ (name = "web" /\ items = << >>) => last.out[1] = <<"WEB", 1>>
          /\ (name = "p" /\ ids = {<<"P", 1>>, <<"P", 3>>})
                => last.out[1] = <<"P", 4>>

\* generate_item_id on project p after P-2 was deleted from P-1, P-2, P-3
C15_Witness ==
    /\ last.op = "generate_item_id" /\ last.args = <<"p">>
    /\ "p" \in DOMAIN projects
    /\ Len(projects["p"]) = 2
    /\ projects["p"][1].id = <<"P", 1>>
    /\ projects["p"][2].id = <<"P", 3>>
    /\ last.out = <<<<"P", 4>>>>

----------------------------------------------------------------------------
(* SpecUpdate: update_item on two projects under a clock that moves once
   the items are added *)

\* the keyword arguments of update_item in SpecUpdate: a field with a value
\* next to a field given as None, and a key that is no field of BacklogItem
UpdateKwargs == UpdateInputs \cup { ("points" :> Some(8)) }

\* the add_item arguments of SpecUpdate: every optional field has a value
FullAdd == {a \in AddInputs : a.title = Some("Search")}

NextUpdate ==
    \/ Tick /\ UNCHANGED removed
    \/ \E n \in ProjectNames : CreateProject(n) /\ UNCHANGED removed
    \/ \E n \in ProjectNames, a \in FullAdd :
          /\ TotalItems(projects) < MaxItems
          /\ now = FirstClock
          /\ AddItem(n, a)
          /\ UNCHANGED removed
    \/ \E n \in ProjectNames, kw \in UpdateKwargs :
          \E id \in ItemIds(n) : UpdateItem(n, id, kw) /\ UNCHANGED removed

SpecUpdate == Init /\ [][NextUpdate]_vars

\* C16: update_item on an item of the store changes, of that item, only the
\* fields given with a value other than None, and updated_at; the item's
\* other fields, id and created_at among them, the other items of the
\* project, their order, and the other projects and documents stay as they
\* were.  On a project or an identifier the store does not hold it reports
\* not found and changes neither the store nor the documents.
C16_UpdateFrame ==
    [][last'.op = "update_item" =>
         \A n \in ProjectNames : \A id \in ItemIds(n) : \A kw \in UpdateKwargs :
            UpdateItem(n, id, kw) =>
               IF n \in DOMAIN projects /\ find_item(projects[n], id) # 0
               THEN LET i == find_item(projects[n], id)
                        supplied == {k \in DOMAIN kw : kw[k] # None}
                    IN /\ last'.ret
                       /\ DOMAIN projects' = DOMAIN projects
                       /\ DOMAIN docs' = DOMAIN docs
                       /\ \A m \in DOMAIN projects \ {n} :
                             projects'[m] = projects[m] /\ docs'[m] = docs[m]
                       /\ Len(projects'[n]) = Len(projects[n])
                       /\ \A j \in 1..Len(projects[n]) :
                             j # i => projects'[n][j] = projects[n][j]
                       /\ \A f \in ItemFields \ (supplied \cup {"updated_at"}) :
                             projects'[n][i][f] = projects[n][i][f]
               ELSE /\ ~last'.ret
                    /\ last'.msg \in {"project not found", "item not found"}
                    /\ projects' = projects
                    /\ docs' = docs]_vars

\* an update with status done and sprint None on the second of two items of
\* a project: the sprint the item had is still there
C16_Witness ==
    /\ last.op = "update_item" /\ last.ret /\ last.args = <<"web">>
    /\ "web" \in DOMAIN projects /\ Len(projects["web"]) = 2
    /\ projects["web"][2].status = Some("done")
    /\ projects["web"][2].sprint = Some("s1")
    /\ projects["web"][2].updated_at > projects["web"][2].created_at
    /\ projects["web"][1].status = Some("todo")

----------------------------------------------------------------------------
(* SpecBatch: batch processes and shell runs, one after the other, over one
   directory that starts empty *)

\* the project of SpecBatch
BatchNames == {"p"}

NoFlags ==
    [priority |-> None, sprint |-> None, epic |-> None, assignee |-> None,
     points |-> None]

\* the flags of `item add`
BatchAddFlags ==
    { NoFlags,
      [NoFlags EXCEPT !.points = Some("5")],
      [NoFlags EXCEPT !.points = Some("-3")] }

NoUpdateFlags ==
    [title |-> None, description |-> None, priority |-> None,
     status |-> None, sprint |-> None, epic |-> None, assignee |-> None,
     points |-> None]

\* the flags of `item update`
BatchUpdateFlags ==
    { [NoUpdateFlags EXCEPT !.points = Some("8")],
      [NoUpdateFlags EXCEPT !.assignee = Some("bob"),
                            !.status = Some("done")] }

\* what is typed at the prompts of `add` and `update` in SpecBatch
PointsAddAnswers ==
    {[a EXCEPT !.points = s] : a \in AddAnswers, s \in {"", "5", "-3"}}

PointsUpdateAnswers ==
    {[KeepAll EXCEPT !.points = s] : s \in {"-3", "8"}}

\* the item identifiers named in SpecBatch
BatchIds == {<<upper(n), k>> : n \in BatchNames, k \in 1..(MaxShellItems + 1)}

NextBatch ==
    \/ NewManager /\ UNCHANGED removed
    \/ \E n \in BatchNames : BatchProjectCreate(n) /\ UNCHANGED removed
    \/ \E n \in BatchNames, c \in BOOLEAN :
          BatchProjectDelete(n, c) /\ UNCHANGED removed
    \/ \E n \in BatchNames, flags \in BatchAddFlags :
          /\ TotalItems(load_projects(docs, now)) < MaxShellItems
          /\ BatchItemAdd(n, "Login", "OAuth flow", flags)
          /\ UNCHANGED removed
    \/ \E n \in BatchNames, id \in BatchIds, flags \in BatchUpdateFlags :
          BatchItemUpdate(n, id, flags) /\ UNCHANGED removed
    \/ \E n \in BatchNames, id \in BatchIds, c \in BOOLEAN :
          BatchItemDelete(n, id, c) /\ UNCHANGED removed
    \/ \E n \in BatchNames : CliUseProject(<<n>>) /\ UNCHANGED removed
    \/ \E n \in BatchNames : CliCreateProject(<<n>>) /\ UNCHANGED removed
    \/ \E ans \in PointsAddAnswers :
          /\ TotalItems(projects) < MaxShellItems
          /\ CliAddItem(<< >>, ans, NoRaise)
          /\ UNCHANGED removed
    \/ \E id \in BatchIds, ans \in PointsUpdateAnswers :
          CliUpdateItem(<<id>>, ans, NoRaise) /\ UNCHANGED removed

SpecBatch == Init /\ [][NextBatch]_vars

\* the story points of an item or of a saved dict: absent, or not negative
PointsValid(story_points) == story_points = None \/ story_points[1] >= 0

\* C17: the story_points of every item of the store and of every saved
\* document is None or an integer that is not negative, whatever is given to
\* `item add --points`, to the prompt of `add` or to the prompt of `update`.
C17_PointsNotNegative ==
    /\ \A n \in DOMAIN projects : \A i \in 1..Len(projects[n]) :
          PointsValid(projects[n][i].story_points)
    /\ \A n \in DOMAIN docs : \A i \in 1..Len(docs[n]) :
          PointsValid(docs[n][i].story_points)

\* C18: after `item update PROJECT ID --points N` on an item of the store,
\* the story_points of that item is N.
C18_BatchUpdatePoints ==
    ( /\ last.op = "item update" /\ last.ret
      /\ last.args[3].points # None )
    => LET items == projects[last.args[1]]
           i == find_item(items, last.args[2])
       IN items[i].story_points = Some(int(last.args[3].points[1]))

====
